---- MODULE Spec2Model ----
(***************************************************************************)
(* Spider solitaire engine of rgames (src/spider/src/game.rs, card.rs):    *)
(* the Game struct, Game::new, do_move, undo_once and their helpers, as a  *)
(* state machine driven by a caller that issues do_move/undo_once calls.   *)
(* Vectors are sequences; a Rust index i is the TLA+ index i + 1.          *)
(* The snake game of rgames (src/snake/src/main.rs) is the second program: *)
(* its Game, Game::new, update and their helpers, under SnakeSpec.         *)
(***************************************************************************)
EXTENDS Integers, Sequences, FiniteSets, TLC

\* ------------------------------------------------------------- constants

\* number of tableau piles (Game::new builds 4 + 6 of them)
PILES == 10
\* size of the deck Game::new builds
DECK == 104
\* number of cards Game::new puts in the stock
STOCK == 50
\* Rank::King as u8
KING == 13
\* length of the pile test_win takes for a finished run
RUN == 13
\* usize::MAX (the value a wrapping usize subtraction 0 - 1 yields); only its
\* being larger than every vector length matters, so TLC's largest integer
\* stands for 2^64 - 1
USIZE_MAX == 2147483647


\* snake: the length of the snake Game::new lays out
INIT_LENGTH == 3
\* snake: the number of food items generate_food fills up to
FOOD_NUM == 5
\* snake: the highest score of a food item
FOOD_MAX_SCORE == 5
\* the largest u16
U16_MAX == 65535

\* ---------------------------------------------------------------- bounds

\* number of calls the caller makes after its planned opening
MaxCalls == 1
\* tableau piles 1..MaxPile are named by the caller's free MoveCard arguments
MaxPile == 2
\* free src.card arguments reach this many cards below the top of a pile
MaxRun == 1
\* the seed of the one shuffle that is dealt
Seed == 64
MaxClicks == 4


\* snake: update() is called at most this many times
MaxUpdates == 3

\* ------------------------------------------------------------- card.rs

Suits == <<"Clubs", "Diamonds", "Hearts", "Spades">>

\* Suit::color
color(suit) ==
    CASE suit = "Clubs" -> "Black"
      [] suit = "Diamonds" -> "Red"
      [] suit = "Hearts" -> "Red"
      [] suit = "Spades" -> "Black"

Card(suit, rank) == [suit |-> suit, rank |-> rank]

GameCard(card, is_up) == [card |-> card, is_up |-> is_up]

GameSuitNumber == {"One", "Two", "Four"}

\* Option<T>
None == <<>>
Some(x) == <<x>>

\* ------------------------------------------------------------- game.rs

CardPosition(pile, card) == [pile |-> pile, card |-> card]

DrawStock == [kind |-> "DrawStock"]
RecycleStock == [kind |-> "RecycleStock"]
MoveCard(src, dst, before_visible) ==
    [kind |-> "MoveCard", src |-> src, dst |-> dst, before_visible |-> before_visible]

\* Result<(), MoveError> of an operation on game g, with the game it leaves
Ok(g) == [g |-> g, res |-> "Ok"]
Err(g, e) == [g |-> g, res |-> e]
\* an arithmetic-overflow panic of a build with overflow checks: the process
\* ends; no field has been written at any of the places that can panic
\* unless the game given here says so
Panic(g) == [g |-> g, res |-> "Panic"]

\* Vec::last
Last(v) == v[Len(v)]

\* Vec::remove(i)
VecRemove(v, i) == SubSeq(v, 1, i) \o SubSeq(v, i + 2, Len(v))

\* Vec::insert(i, x)
VecInsert(v, i, x) == SubSeq(v, 1, i) \o <<x>> \o SubSeq(v, i + 1, Len(v))

\* Vec::swap_remove(i): the last element takes the place of the removed one
swap_remove(v, i) ==
    IF i + 1 = Len(v) THEN SubSeq(v, 1, Len(v) - 1)
    ELSE SubSeq(v, 1, i) \o <<v[Len(v)]>> \o SubSeq(v, i + 2, Len(v) - 1)


\* verify_under that looks at the ranks only
verify_under_any_suit(gs, up, down) ==
    IF up.rank < down.rank THEN FALSE
    ELSE IF up.rank - down.rank # 1 THEN FALSE
    ELSE TRUE

\* verify_under: may `down` be placed on `up`
verify_under(gs, up, down) ==
    IF up.rank < down.rank THEN FALSE
    ELSE IF up.rank - down.rank # 1 THEN FALSE
    ELSE CASE gs = "One" -> TRUE
           [] gs = "Two" -> color(up.suit) = color(down.suit)
           [] gs = "Four" -> up.suit = down.suit

\* do_move_draw_stock with `>` for `>=`: the draw at the end of the stock
\* is let through
draw_stock_past_end(g) ==
    IF g.current_stock_pos > Len(g.stock) THEN Err(g, "DrawEmptyStock")
    ELSE Ok([g EXCEPT !.current_stock_pos = @ + 1])

\* Game::do_move_draw_stock
do_move_draw_stock(g) ==
    IF g.current_stock_pos >= Len(g.stock) THEN Err(g, "DrawEmptyStock")
    ELSE IF g.current_stock_pos = 0 THEN Ok([g EXCEPT !.current_stock_pos = 1])
    ELSE Ok([g EXCEPT !.current_stock_pos = @ + 1])

\* do_move_recycle_stock without its guard: the cursor is reset at any time
recycle_stock_unguarded(g) ==
    Ok([g EXCEPT !.current_stock_pos = 0])

\* Game::do_move_recycle_stock
do_move_recycle_stock(g) ==
    IF g.current_stock_pos < Len(g.stock) THEN Err(g, "RecycleNoneEmptyStock")
    ELSE Ok([g EXCEPT !.current_stock_pos = 0])


\* the success tail of a stock move that leaves the cursor where it was
stock_to_tableau_cursor_kept(g, src, dst, src_card) ==
    [g EXCEPT !.tableau[dst.pile] = Append(@, src_card),
              !.stock = VecRemove(@, src.card)]

\* the success tail of do_move_card_stock_to_tableau (both of its copies)
stock_to_tableau(g, src, dst, src_card) ==
    [g EXCEPT !.tableau[dst.pile] = Append(@, src_card),
              !.stock = VecRemove(@, src.card),
              !.current_stock_pos = @ - 1]

\* Game::do_move_card_stock_to_tableau; oc: the build checks overflow
do_move_card_stock_to_tableau(g, src, dst, oc) ==
    IF g.current_stock_pos = 0 /\ oc THEN Panic(g)
    ELSE LET shown == IF g.current_stock_pos = 0 THEN USIZE_MAX
                      ELSE g.current_stock_pos - 1
    IN
    IF src.card # shown THEN Err(g, "MoveInvalidStockCard")
    ELSE IF ~(src.card < Len(g.stock)) THEN Err(g, "MoveSrcNotExist")
    ELSE LET src_card == g.stock[src.card + 1] IN
    IF ~src_card.is_up THEN Err(g, "MoveSrcNotExist")
    ELSE IF dst.pile = 0 /\ oc THEN Panic(g)
    ELSE IF dst.pile = 0 \/ ~(dst.pile - 1 < Len(g.tableau))
        THEN Err(g, "MoveDstNotValid")
    ELSE LET dst_pile == g.tableau[dst.pile] IN
    IF Len(dst_pile) > dst.card THEN Err(g, "MoveDstNotValid")
    ELSE IF src_card.card.rank = KING /\ dst_pile = <<>>
        THEN Ok(stock_to_tableau(g, src, dst, src_card))
    ELSE IF dst_pile = <<>> THEN Err(g, "MoveDstNotValid")
    ELSE IF ~verify_under(g.game_suit, Last(dst_pile).card, src_card.card)
        THEN Err(g, "MoveDstNotValid")
    ELSE Ok(stock_to_tableau(g, src, dst, src_card))


\* the relocation with the run pushed top card first
tableau_to_tableau_reversed(g, src, dst) ==
    LET src_pile == g.tableau[src.pile]
        n == Len(src_pile) - src.card
        pushed == [g.tableau EXCEPT
                     ![dst.pile] = @ \o [k \in 1..n |-> src_pile[Len(src_pile) + 1 - k]]]
        popped == [pushed EXCEPT ![src.pile] = SubSeq(@, 1, Len(@) - n)]
        turned == [popped EXCEPT ![src.pile] =
                     IF @ = <<>> THEN @ ELSE [@ EXCEPT ![Len(@)].is_up = TRUE]]
    IN [g EXCEPT !.tableau = turned]


\* the relocation without the turning up of the source pile's last card
tableau_to_tableau_not_turned(g, src, dst) ==
    LET src_pile == g.tableau[src.pile]
        n == Len(src_pile) - src.card
        pushed == [g.tableau EXCEPT
                     ![dst.pile] = @ \o SubSeq(src_pile, src.card + 1, Len(src_pile))]
        popped == [pushed EXCEPT ![src.pile] = SubSeq(@, 1, Len(@) - n)]
    IN [g EXCEPT !.tableau = popped]

\* the relocation of do_move_card_tableau_to_tableau (both of its copies):
\* the cloned source pile's cards from src.card on are pushed on the
\* destination, then as many cards are popped from the source pile (which
\* may be the destination itself), then the source's last card is turned up
tableau_to_tableau(g, src, dst) ==
    LET src_pile == g.tableau[src.pile]
        n == Len(src_pile) - src.card
        pushed == [g.tableau EXCEPT
                     ![dst.pile] = @ \o SubSeq(src_pile, src.card + 1, Len(src_pile))]
        popped == [pushed EXCEPT ![src.pile] = SubSeq(@, 1, Len(@) - n)]
        turned == [popped EXCEPT ![src.pile] =
                     IF @ = <<>> THEN @ ELSE [@ EXCEPT ![Len(@)].is_up = TRUE]]
    IN [g EXCEPT !.tableau = turned]

\* Game::do_move_card_tableau_to_tableau (src.pile >= 1)
do_move_card_tableau_to_tableau(g, src, dst, oc) ==
    IF ~(src.pile - 1 < Len(g.tableau)) THEN Err(g, "MoveSrcNotExist")
    ELSE LET src_pile == g.tableau[src.pile] IN
    IF ~(src.card < Len(src_pile)) THEN Err(g, "MoveSrcNotExist")
    ELSE LET src_card == src_pile[src.card + 1] IN
    IF ~src_card.is_up THEN Err(g, "MoveSrcNotExist")
    ELSE IF dst.pile = 0 /\ oc THEN Panic(g)
    ELSE IF dst.pile = 0 \/ ~(dst.pile - 1 < Len(g.tableau))
        THEN Err(g, "MoveDstNotValid")
    ELSE LET dst_pile == g.tableau[dst.pile] IN
    IF Len(dst_pile) > dst.card THEN Err(g, "MoveDstNotValid")
    ELSE IF src_card.card.rank = KING /\ dst_pile = <<>>
        THEN Ok(tableau_to_tableau(g, src, dst))
    ELSE IF dst_pile = <<>> THEN Err(g, "MoveDstNotValid")
    \* line 428: the value of verify_under(..) is computed and dropped
    ELSE Ok(tableau_to_tableau(g, src, dst))

\* do_move_card that takes a tableau card at src whichever way it faces
do_move_card_any_face(g, src, dst, oc) ==
    IF src.pile = 0 THEN do_move_card_stock_to_tableau(g, src, dst, oc)
    ELSE LET shown == IF src.pile <= Len(g.tableau) /\ src.card < Len(g.tableau[src.pile])
                      THEN [g EXCEPT !.tableau[src.pile][src.card + 1].is_up = TRUE]
                      ELSE g
         IN do_move_card_tableau_to_tableau(shown, src, dst, oc)

\* Game::do_move_card
do_move_card(g, src, dst, oc) ==
    IF src.pile = 0 THEN do_move_card_stock_to_tableau(g, src, dst, oc)
    ELSE do_move_card_tableau_to_tableau(g, src, dst, oc)

\* do_move that records the move whatever the outcome
do_move_always_recorded(g, game_move, oc) ==
    LET r == CASE game_move.kind = "DrawStock" -> do_move_draw_stock(g)
               [] game_move.kind = "RecycleStock" -> do_move_recycle_stock(g)
               [] game_move.kind = "MoveCard" ->
                    do_move_card(g, game_move.src, game_move.dst, oc)
    IN [r EXCEPT !.g.history_moves = Append(@, game_move)]

\* do_move that records an accepted move in front of the earlier ones
do_move_recorded_in_front(g, game_move, oc) ==
    LET r == CASE game_move.kind = "DrawStock" -> do_move_draw_stock(g)
               [] game_move.kind = "RecycleStock" -> do_move_recycle_stock(g)
               [] game_move.kind = "MoveCard" ->
                    do_move_card(g, game_move.src, game_move.dst, oc)
    IN IF r.res = "Ok"
       THEN [r EXCEPT !.g.history_moves = <<game_move>> \o @]
       ELSE r

\* Game::do_move
do_move(g, game_move, oc) ==
    LET r == CASE game_move.kind = "DrawStock" -> do_move_draw_stock(g)
               [] game_move.kind = "RecycleStock" -> do_move_recycle_stock(g)
               [] game_move.kind = "MoveCard" ->
                    do_move_card(g, game_move.src, game_move.dst, oc)
    IN IF r.res = "Ok"
       THEN [r EXCEPT !.g.history_moves = Append(@, game_move)]
       ELSE r

\* an undo of a draw that moves the cursor forward
undo_draw_forward(g) ==
    IF g.current_stock_pos = 0 THEN Err(g, "DrawEmptyStock")
    ELSE Ok([g EXCEPT !.current_stock_pos = @ + 1])

\* Game::undo_move_draw_stock
undo_move_draw_stock(g) ==
    IF g.current_stock_pos = 0 THEN Err(g, "DrawEmptyStock")
    ELSE Ok([g EXCEPT !.current_stock_pos = @ - 1])

\* Game::undo_recycle_stock
undo_recycle_stock(g) ==
    IF g.current_stock_pos # 0 THEN Err(g, "RecycleNoneEmptyStock")
    ELSE Ok([g EXCEPT !.current_stock_pos = Len(g.stock)])

\* Game::undo_move_stock_to_tableau
undo_move_stock_to_tableau(g, dst) ==
    IF dst.pile = 0 THEN Err(g, "MoveDstNotValid")
    ELSE IF ~(dst.pile - 1 < Len(g.tableau)) THEN Err(g, "MoveDstNotValid")
    ELSE LET dst_pile == g.tableau[dst.pile] IN
    IF ~(dst.card < Len(dst_pile)) THEN Err(g, "MoveDstNotValid")
    ELSE LET dst_card == dst_pile[dst.card + 1] IN
    Ok([g EXCEPT !.stock = VecInsert(@, g.current_stock_pos, dst_card),
                 !.current_stock_pos = @ + 1,
                 \* one pop for every index of dst.card..n
                 !.tableau[dst.pile] = SubSeq(@, 1, dst.card)])

\* the loop of undo_move_tableau_to_tableau, n iterations:
\* remove(dst.card) from the destination pile, push on the source pile
RECURSIVE move_back(_, _, _, _)
move_back(t, src, dst, n) ==
    IF n = 0 THEN t
    ELSE LET card == t[dst.pile][dst.card + 1]
             removed == [t EXCEPT ![dst.pile] = VecRemove(@, dst.card)]
         IN move_back([removed EXCEPT ![src.pile] = Append(@, card)], src, dst, n - 1)


\* undo_move_tableau_to_tableau without the turning back of the card below
undo_tableau_faces_kept(g, src, dst, before_visible, oc) ==
    IF ~(src.pile - 1 < Len(g.tableau)) THEN Err(g, "MoveSrcNotExist")
    ELSE IF dst.pile = 0 /\ oc THEN Panic(g)
    ELSE IF dst.pile = 0 \/ ~(dst.pile - 1 < Len(g.tableau))
        THEN Err(g, "MoveDstNotValid")
    ELSE LET dst_pile == g.tableau[dst.pile] IN
    IF Len(dst_pile) <= dst.card THEN Err(g, "MoveDstNotValid")
    ELSE Ok([g EXCEPT
               !.tableau = move_back(@, src, dst, Len(dst_pile) - dst.card)])

\* Game::undo_move_tableau_to_tableau (src.pile >= 1)
undo_move_tableau_to_tableau(g, src, dst, before_visible, oc) ==
    IF ~(src.pile - 1 < Len(g.tableau)) THEN Err(g, "MoveSrcNotExist")
    ELSE LET flipped ==
               IF before_visible # None /\ src.card > 0
                  /\ src.card - 1 < Len(g.tableau[src.pile])
               THEN [g EXCEPT !.tableau[src.pile][src.card].is_up = ~before_visible[1]]
               ELSE g
    IN
    IF dst.pile = 0 /\ oc THEN Panic(flipped)
    ELSE IF dst.pile = 0 \/ ~(dst.pile - 1 < Len(flipped.tableau))
        THEN Err(flipped, "MoveDstNotValid")
    ELSE LET dst_pile == flipped.tableau[dst.pile] IN
    IF Len(dst_pile) <= dst.card THEN Err(flipped, "MoveDstNotValid")
    ELSE Ok([flipped EXCEPT
               !.tableau = move_back(@, src, dst, Len(dst_pile) - dst.card)])

\* Game::undo_move
undo_move(g, game_move, oc) ==
    CASE game_move.kind = "DrawStock" -> undo_move_draw_stock(g)
      [] game_move.kind = "RecycleStock" -> undo_recycle_stock(g)
      [] game_move.kind = "MoveCard" ->
           IF game_move.src.pile = 0
           THEN undo_move_stock_to_tableau(g, game_move.dst)
           ELSE undo_move_tableau_to_tableau(g, game_move.src, game_move.dst,
                                             game_move.before_visible, oc)

\* Game::undo_once; res is the local `res`, "NoHistory" on the early return
undo_once(g, oc) ==
    IF g.history_moves = <<>> THEN [g |-> g, res |-> "NoHistory"]
    ELSE LET r == undo_move(g, Last(g.history_moves), oc) IN
         IF r.res = "Ok"
         THEN [r EXCEPT !.g.history_moves = SubSeq(@, 1, Len(@) - 1)]
         ELSE r

\* test_win that looks at the lengths of the piles only
test_win_by_length(g) ==
    IF g.stock # <<>> THEN FALSE
    ELSE \A i \in 0..(PILES - 1) :
            i < Len(g.tableau) =>
                LET pile == g.tableau[i + 1] IN
                pile = <<>> \/ Len(pile) = RUN

\* Game::test_win: the loops return false at the first pile that is neither
\* empty nor RUN cards long, and at the first face-down card
test_win(g) ==
    IF g.stock # <<>> THEN FALSE
    ELSE \A i \in 0..(PILES - 1) :
            i < Len(g.tableau) =>
                LET pile == g.tableau[i + 1] IN
                \/ pile = <<>>
                \/ /\ Len(pile) = RUN
                   /\ \A j \in 0..(RUN - 1) : pile[j + 1].is_up

\* the card src names, for find_possible_move: None if there is none
card_at(g, src) ==
    IF src.pile = 0
    THEN IF src.card < Len(g.stock) THEN Some(g.stock[src.card + 1]) ELSE None
    ELSE IF src.pile - 1 < Len(g.tableau) /\ src.card < Len(g.tableau[src.pile])
         THEN Some(g.tableau[src.pile][src.card + 1])
         ELSE None

\* the before_visible find_possible_move computes (the pile of src exists)
found_before_visible(g, src) ==
    IF src.pile = 0 THEN None
    ELSE IF src.card < 1 THEN Some(FALSE)
    ELSE LET pile == g.tableau[src.pile] IN
         IF src.card - 1 < Len(pile) THEN Some(~pile[src.card].is_up)
         ELSE Some(FALSE)

\* the `for i in 0..10` loop of find_possible_move, from pile index i on
RECURSIVE scan_piles(_, _, _, _, _)
scan_piles(g, src, card, before_visible, i) ==
    IF i >= PILES THEN None
    ELSE IF i + 1 = src.pile THEN scan_piles(g, src, card, before_visible, i + 1)
    ELSE IF ~(i < Len(g.tableau)) THEN scan_piles(g, src, card, before_visible, i + 1)
    ELSE LET pile == g.tableau[i + 1] IN
         IF pile = <<>> /\ card.card.rank = KING
         THEN Some(MoveCard(src, CardPosition(i + 1, 0), before_visible))
         ELSE IF pile = <<>> THEN scan_piles(g, src, card, before_visible, i + 1)
         ELSE IF ~verify_under(g.game_suit, Last(pile).card, card.card)
         THEN scan_piles(g, src, card, before_visible, i + 1)
         ELSE Some(MoveCard(src, CardPosition(i + 1, Len(pile)), before_visible))

\* the loop of find_possible_move run from pile 10 down to pile 1
RECURSIVE scan_piles_down(_, _, _, _, _)
scan_piles_down(g, src, card, before_visible, i) ==
    IF i < 0 THEN None
    ELSE IF i + 1 = src.pile \/ ~(i < Len(g.tableau))
    THEN scan_piles_down(g, src, card, before_visible, i - 1)
    ELSE LET pile == g.tableau[i + 1] IN
         IF pile = <<>> /\ card.card.rank = KING
         THEN Some(MoveCard(src, CardPosition(i + 1, 0), before_visible))
         ELSE IF pile = <<>> \/ ~verify_under(g.game_suit, Last(pile).card, card.card)
         THEN scan_piles_down(g, src, card, before_visible, i - 1)
         ELSE Some(MoveCard(src, CardPosition(i + 1, Len(pile)), before_visible))

\* find_possible_move that suggests the last pile that fits
find_possible_move_last(g, src) ==
    IF card_at(g, src) = None THEN None
    ELSE scan_piles_down(g, src, card_at(g, src)[1], found_before_visible(g, src), PILES - 1)

\* Game::find_possible_move
find_possible_move(g, src) ==
    IF card_at(g, src) = None THEN None
    ELSE scan_piles(g, src, card_at(g, src)[1], found_before_visible(g, src), 0)

\* ------------------------------------------------------------ Game::new

\* all_cards as the four loops of Game::new push it: for each suit in turn,
\* each rank 1..13 twice, face down
all_cards ==
    [j \in 1..DECK |->
        GameCard(Card(Suits[((j - 1) \div 26) + 1], (((j - 1) % 26) \div 2) + 1), FALSE)]

\* thread_rng() is any stream of draws; the streams dealt here are those of
\* the linear congruential generator x -> 75 x + 74 mod 65537
rng_next(x) == (75 * x + 74) % 65537

\* rng.gen_range(0..n) of the generator in state x
gen_range(x, n) == x % n

\* one draw of Game::new: num = rng.gen_range(0..all_cards.len()), then
\* card = all_cards.swap_remove(num); `order` collects the cards drawn
draw_card(d) ==
    LET x == rng_next(d.x)
        num == gen_range(x, Len(d.cards))
    IN [cards |-> swap_remove(d.cards, num), x |-> x,
        order |-> Append(d.order, d.cards[num + 1])]

\* eight draws in a row
draw_card8(d) ==
    draw_card(draw_card(draw_card(draw_card(
        draw_card(draw_card(draw_card(draw_card(d))))))))

\* n draws in a row (eight at a time while n allows, which keeps TLC's
\* evaluation of the 104 draws shallow)
RECURSIVE draw_cards(_, _)
draw_cards(d, n) ==
    IF n = 0 THEN d
    ELSE LET e == IF n >= 8 THEN draw_card8(d) ELSE draw_card(d)
             m == IF n >= 8 THEN n - 8 ELSE n - 1
         IN IF Len(e.order) > Len(d.order) THEN draw_cards(e, m) ELSE e

\* the cards in the order Game::new draws them, all_cards.len() draws in all
taken(cards, seed) ==
    draw_cards([cards |-> cards, x |-> seed, order |-> <<>>], Len(cards)).order

\* a pile dealt with every card turned up
dealt_pile_all_up(cards) == [k \in 1..Len(cards) |-> [cards[k] EXCEPT !.is_up = TRUE]]

\* a pile of Game::new: its cards face down, the last one turned up
dealt_pile(cards) == [k \in 1..Len(cards) |->
                        IF k = Len(cards) THEN [cards[k] EXCEPT !.is_up = TRUE]
                        ELSE cards[k]]

\* Game::new: 4 piles of 6 cards, 6 piles of 5, and 50 stock cards, each of
\* which line 743 turns up
new(gs, seed) ==
    LET order == taken(all_cards, seed)
        pile(p) == IF p <= 4 THEN SubSeq(order, 6 * (p - 1) + 1, 6 * p)
                   ELSE SubSeq(order, 24 + 5 * (p - 5) + 1, 24 + 5 * (p - 4))
    IN [tableau |-> [p \in 1..PILES |-> dealt_pile(pile(p))],
        stock |-> [k \in 1..STOCK |-> [order[DECK - STOCK + k] EXCEPT !.is_up = TRUE]],
        current_stock_pos |-> 0,
        score |-> 0,
        game_suit |-> gs,
        history_moves |-> <<>>]


\* what handle_click leaves: the game, the move it sent to do_move (None
\* when it sent none) and do_move's result ("None" when it sent none)
Clicked(r, game_move) == [g |-> r.g, res |-> r.res, game_move |-> game_move]
NoClick(g) == [g |-> g, res |-> "None", game_move |-> None]

\* the first branch of handle_click: a click in stock_chunks[0], on the
\* shown card when there is one (the render gives it its pos)
handle_click_shown(g, oc) ==
    IF g.current_stock_pos = 0 /\ oc THEN [NoClick(g) EXCEPT !.res = "Panic"]
    ELSE LET shown == IF g.current_stock_pos = 0 THEN USIZE_MAX
                      ELSE g.current_stock_pos - 1
    IN
    IF ~(shown < Len(g.stock)) THEN NoClick(g)
    ELSE LET game_move == find_possible_move(g, CardPosition(0, shown)) IN
    IF game_move = None THEN NoClick(g)
    ELSE Clicked(do_move(g, game_move[1], oc), game_move)

\* the stock click that recycles only past the end of the stock
handle_click_stock_past_end(g, oc) ==
    IF g.current_stock_pos > Len(g.stock)
    THEN Clicked(do_move(g, RecycleStock, oc), Some(RecycleStock))
    ELSE Clicked(do_move(g, DrawStock, oc), Some(DrawStock))

\* the second branch of handle_click: a click in stock_ui_pos
handle_click_stock(g, oc) ==
    IF g.current_stock_pos >= Len(g.stock)
    THEN Clicked(do_move(g, RecycleStock, oc), Some(RecycleStock))
    ELSE Clicked(do_move(g, DrawStock, oc), Some(DrawStock))

\* the third branch of handle_click: a click on card j of pile i + 1, which
\* has a pos and is face up
handle_click_card(g, i, j, oc) ==
    LET game_move == find_possible_move(g, CardPosition(i + 1, j)) IN
    IF game_move = None THEN NoClick(g)
    ELSE Clicked(do_move(g, game_move[1], oc), game_move)

\* the places of a left click that handle_click acts on: stock_chunks[0],
\* stock_ui_pos, and the cards of the piles that render_pile gave a pos
ClickTargets(g) ==
    {[area |-> "shown", pile |-> 0, card |-> 0],
     [area |-> "stock", pile |-> 0, card |-> 0]}
    \cup UNION {{[area |-> "card", pile |-> i + 1, card |-> j] :
                   j \in {k \in 0..(Len(g.tableau[i + 1]) - 1) :
                            g.tableau[i + 1][k + 1].is_up}} :
                i \in 0..(PILES - 1)}

\* Game::handle_click for a left click at target
handle_click(g, target, oc) ==
    CASE target.area = "shown" -> handle_click_shown(g, oc)
      [] target.area = "stock" -> handle_click_stock(g, oc)
      [] target.area = "card" -> handle_click_card(g, target.pile - 1, target.card, oc)

\* ---------------------------------------------------------------- state

VARIABLES
    tableau,            \* Game.tableau
    stock,              \* Game.stock
    current_stock_pos,  \* Game.current_stock_pos
    score,              \* Game.score
    game_suit,          \* Game.game_suit
    history_moves,      \* Game.history_moves
    call,               \* the last call made on the game, with its argument
    res,                \* what that call's `res` was
    plan,               \* the calls the caller has still planned to make
    calls,              \* the number of calls made after the plan
    game                \* the snake program's Game (None in the spider program)

vars == <<tableau, stock, current_stock_pos, score, game_suit, history_moves,
          call, res, plan, calls, game>>

\* the Game value of the current state
Self == [tableau |-> tableau, stock |-> stock,
         current_stock_pos |-> current_stock_pos, score |-> score,
         game_suit |-> game_suit, history_moves |-> history_moves]

\* the next state holds game g
Becomes(g) ==
    /\ tableau' = g.tableau
    /\ stock' = g.stock
    /\ current_stock_pos' = g.current_stock_pos
    /\ score' = g.score
    /\ game_suit' = g.game_suit
    /\ history_moves' = g.history_moves

\* ------------------------------------------------------------ the caller

\* the src arguments of the caller's free MoveCard calls: the stock cards
\* around the cursor (and the index a wrapped cursor - 1 names), the cards
\* near the top of piles 1..MaxPile and one past them, a pile that is none
SrcArgs ==
    {CardPosition(0, c) : c \in {k \in (current_stock_pos - MaxRun)..current_stock_pos : k >= 0}}
    \cup {CardPosition(0, USIZE_MAX)}
    \cup UNION {{CardPosition(p, c) :
                   c \in {k \in (Len(tableau[p]) - MaxRun)..Len(tableau[p]) : k >= 0}} :
                p \in 1..MaxPile}
    \cup {CardPosition(PILES + 1, 0)}

\* the dst arguments: pile 0, piles 1..MaxPile at their top card and their
\* end (the planned openings send a dst.card beyond it), a pile that is none
DstArgs ==
    {CardPosition(0, 0), CardPosition(PILES + 1, 0)}
    \cup UNION {{CardPosition(p, c) :
                   c \in {k \in (Len(tableau[p]) - 1)..Len(tableau[p]) : k >= 0}} :
                p \in 1..MaxPile}

\* the before_visible a caller sends with src: None for a stock card, Some
\* of either value for a tableau card (the forms find_possible_move builds)
BeforeVisibleArgs(src) ==
    IF src.pile = 0 THEN {None} ELSE {Some(TRUE), Some(FALSE)}

\* the GameMove arguments of the caller's free calls
MoveArgs ==
    {DrawStock, RecycleStock}
    \cup UNION {{MoveCard(src, dst, bv) : dst \in DstArgs, bv \in BeforeVisibleArgs(src)} :
                src \in SrcArgs}

DoMoveCall(m) == [op |-> "do_move", game_move |-> m]
UndoCall == [op |-> "undo_once", game_move |-> None]

\* the calls the caller may make next: the head of its plan, then any call
NextCalls ==
    IF plan # <<>> THEN {Head(plan)}
    ELSE IF calls < MaxCalls THEN {DoMoveCall(m) : m \in MoveArgs} \cup {UndoCall}
    ELSE {}

\* the caller's bookkeeping after a call
Called(c) ==
    /\ call' = c
    /\ plan' = IF plan # <<>> THEN Tail(plan) ELSE plan
    /\ calls' = IF plan # <<>> THEN calls ELSE calls + 1

\* the src arguments of the caller's find_possible_move calls: the stock
\* cards around the cursor, every card of every pile and one past it, a pile
\* that is none
FindArgs ==
    {CardPosition(0, c) :
        c \in {k \in (current_stock_pos - MaxRun - 1)..current_stock_pos : k >= 0}}
    \cup UNION {{CardPosition(p, c) : c \in 0..Len(tableau[p])} : p \in 1..PILES}
    \cup {CardPosition(PILES + 1, 0)}

\* planned calls
Draw == DoMoveCall(DrawStock)
Move(sp, sc, dp, dc, bv) ==
    DoMoveCall(MoveCard(CardPosition(sp, sc), CardPosition(dp, dc), bv))
Draws(n) == [k \in 1..n |-> Draw]

\* pile 1 of the deal is moved away card by card, with the before_visible
\* find_possible_move gives: three cards on pile 2, three on pile 3
EmptyPileOne ==
    <<Move(1, 5, 2, 6, Some(TRUE)), Move(1, 4, 2, 7, Some(TRUE)),
      Move(1, 3, 2, 8, Some(TRUE)), Move(1, 2, 3, 6, Some(TRUE)),
      Move(1, 1, 3, 7, Some(TRUE)), Move(1, 0, 3, 8, Some(FALSE))>>

\* the whole stock is drawn, one more draw is tried, the stock is recycled
FullCycle == Draws(STOCK) \o <<Draw, DoMoveCall(RecycleStock)>>

\* a run of two is built on pile 2; the drawn card goes on pile 1; the run
\* is moved on it to one place beyond pile 1's end; both moves are undone
OverAndBack ==
    <<Move(3, 5, 2, 6, Some(TRUE)), Draw, Move(0, 0, 1, 6, None),
      Move(2, 5, 1, 8, Some(TRUE)), UndoCall, UndoCall>>

\* one move whose before_visible the caller left None
Unrecorded == <<Move(1, 5, 2, 6, None)>>

\* the stock card at index k is put at (dp, dc), the top card of pile 2 is
\* put on it and moved back with before_visible = Some(true), and the three
\* moves are undone
PutAndBack(k, dp, dc, top2) ==
    <<Move(0, k, dp, dc, None), Move(2, top2, dp, dc + 1, Some(FALSE)),
      Move(dp, dc + 1, 2, top2, Some(TRUE)), UndoCall, UndoCall, UndoCall>>

\* the openings the caller may have planned
\* after EmptyPileOne: the King on top of pile 2 starts pile 1, then runs of
\* pile 2 and pile 3 and single cards of pile 2 follow it, 13 cards in all
MixedPile ==
    EmptyPileOne \o
    <<Move(2, 8, 1, 0, Some(FALSE)), Move(2, 5, 1, 1, Some(TRUE)),
      Move(3, 5, 1, 4, Some(TRUE)), Move(2, 4, 1, 8, Some(TRUE)),
      Move(2, 3, 1, 9, Some(TRUE)), Move(2, 2, 1, 10, Some(TRUE)),
      Move(2, 1, 1, 11, Some(TRUE)), Move(2, 0, 1, 12, Some(FALSE))>>

\* a move sent with a dst.card beyond the end of pile 2, then its undo
OverTheEnd == <<Move(1, 5, 2, 8, Some(TRUE)), UndoCall>>

\* a move of the face-down card at index 3 of pile 1
FaceDownSrc == <<Move(1, 3, 2, 6, Some(FALSE))>>

Plans ==
    {<<>>, Draws(1), Draws(6), Draws(STOCK), FullCycle, Unrecorded, OverAndBack, MixedPile,
     OverTheEnd, FaceDownSrc,
     EmptyPileOne, EmptyPileOne \o Draws(1),
     Draws(1) \o PutAndBack(0, 1, 6, 5),
     Draws(1) \o PutAndBack(0, 1, 6, 5) \o EmptyPileOne,
     EmptyPileOne \o Draws(15) \o PutAndBack(14, 1, 0, 8)}

Init ==
    \E gs \in GameSuitNumber, p \in Plans :
        LET g == new(gs, Seed) IN
        /\ tableau = g.tableau
        /\ stock = g.stock
        /\ current_stock_pos = g.current_stock_pos
        /\ score = g.score
        /\ game_suit = g.game_suit
        /\ history_moves = g.history_moves
        /\ call = [op |-> "new", game_move |-> None]
        /\ res = "Ok"
        /\ plan = p
        /\ calls = 0
        /\ game = None

\* a call of Game::do_move, in a build with or without overflow checks
DoMove ==
    /\ res # "Panic"
    /\ \E c \in NextCalls :
        /\ c.op = "do_move"
        /\ \E r \in {do_move(Self, c.game_move, oc) : oc \in BOOLEAN} :
            /\ Becomes(r.g)
            /\ res' = r.res
        /\ Called(c)
    /\ UNCHANGED game

\* a call of Game::undo_once, in a build with or without overflow checks
UndoOnce ==
    /\ res # "Panic"
    /\ \E c \in NextCalls :
        /\ c.op = "undo_once"
        /\ \E r \in {undo_once(Self, oc) : oc \in BOOLEAN} :
            /\ Becomes(r.g)
            /\ res' = r.res
        /\ Called(c)
    /\ UNCHANGED game

\* a call of Game::find_possible_move: the caller asks for a suggestion
\* after its planned opening, in place of its free calls
FindPossibleMove ==
    /\ res # "Panic"
    /\ plan = <<>>
    /\ calls = 0
    /\ \E src \in FindArgs :
        call' = [op |-> "find_possible_move", src |-> src,
                 game_move |-> find_possible_move(Self, src)]
    /\ calls' = MaxCalls
    /\ UNCHANGED <<tableau, stock, current_stock_pos, score, game_suit,
                   history_moves, res, plan>>
    /\ UNCHANGED game


\* a left click handled by Game::handle_click, after the caller's planned
\* opening and in place of its free calls
HandleClick ==
    /\ res # "Panic"
    /\ plan = <<>>
    /\ calls = 0
    /\ \E target \in ClickTargets(Self) :
        \E r \in {handle_click(Self, target, oc) : oc \in BOOLEAN} :
            /\ Becomes(r.g)
            /\ res' = r.res
            /\ call' = [op |-> "handle_click", target |-> target,
                        game_move |-> r.game_move]
    /\ calls' = MaxCalls
    /\ UNCHANGED plan
    /\ UNCHANGED game

Next == DoMove \/ UndoOnce \/ FindPossibleMove \/ HandleClick

Spec == Init /\ [][Next]_vars


\* ------------------------------------------------- play by clicks and keys

\* run_game on a new game: MaxClicks events at most
ClickInit ==
    /\ Init
    /\ plan = <<>>

\* the mouse arm of run_game: a left click, handled by handle_click
Click ==
    /\ res # "Panic"
    /\ calls < MaxClicks
    /\ \E target \in ClickTargets(Self) :
        \E r \in {handle_click(Self, target, oc) : oc \in BOOLEAN} :
            /\ Becomes(r.g)
            /\ res' = r.res
            /\ call' = [op |-> "handle_click", target |-> target,
                        game_move |-> r.game_move]
    /\ calls' = calls + 1
    /\ UNCHANGED plan
    /\ UNCHANGED game

\* the 'u' arm of run_game: undo_once
KeyUndo ==
    /\ res # "Panic"
    /\ calls < MaxClicks
    /\ \E r \in {undo_once(Self, oc) : oc \in BOOLEAN} :
        /\ Becomes(r.g)
        /\ res' = r.res
    /\ call' = UndoCall
    /\ calls' = calls + 1
    /\ UNCHANGED plan
    /\ UNCHANGED game

\* the 's' arm of run_game: do_move(DrawStock)
KeyDraw ==
    /\ res # "Panic"
    /\ calls < MaxClicks
    /\ \E r \in {do_move(Self, DrawStock, oc) : oc \in BOOLEAN} :
        /\ Becomes(r.g)
        /\ res' = r.res
    /\ call' = DoMoveCall(DrawStock)
    /\ calls' = calls + 1
    /\ UNCHANGED plan
    /\ UNCHANGED game

ClickNext == Click \/ KeyUndo \/ KeyDraw

ClickSpec == ClickInit /\ [][ClickNext]_vars

\* ------------------------------------------------- test_win on its own

\* a pile of n face-up cards, Spades from the King down (past the Ace: Aces)
RunPile(n) ==
    [k \in 1..n |-> GameCard(Card("Spades", IF k <= KING THEN KING + 1 - k ELSE 1), TRUE)]

\* the piles test_win is given: none, a finished run, a finished run with
\* its bottom, a middle or its top card face down, RUN cards all alike, one
\* card short and one card over
WinPiles ==
    {<<>>, RunPile(RUN), RunPile(RUN - 1), RunPile(RUN + 1),
     [k \in 1..RUN |-> GameCard(Card("Hearts", 1), TRUE)]}
    \cup {[RunPile(RUN) EXCEPT ![k].is_up = FALSE] : k \in {1, 7, RUN}}

\* the tableaus test_win is given: any such pile as pile 1, pile 2 and pile
\* 10, the other piles empty
WinTableaus ==
    {[p \in 1..PILES |-> CASE p = 1 -> a [] p = 2 -> b [] p = PILES -> c [] OTHER -> <<>>] :
        a \in WinPiles, b \in WinPiles, c \in WinPiles}

\* the stocks test_win is given: none, or one card
WinStocks == {<<>>, <<GameCard(Card("Clubs", 1), TRUE)>>}

\* a Game put together field by field
WinInit ==
    /\ tableau \in WinTableaus
    /\ stock \in WinStocks
    /\ current_stock_pos \in {0, 1}
    /\ score = 0
    /\ game_suit \in GameSuitNumber
    /\ history_moves = <<>>
    /\ call = [op |-> "made", game_move |-> None]
    /\ res = "Ok"
    /\ plan = <<>>
    /\ calls = 0
    /\ game = None

\* the 'w' key of run_game: a call of Game::test_win
TestWin ==
    /\ call.op = "made"
    /\ call' = [op |-> "test_win", game_move |-> None]
    /\ res' = IF test_win(Self) THEN "true" ELSE "false"
    /\ UNCHANGED <<tableau, stock, current_stock_pos, score, game_suit,
                   history_moves, plan, calls>>
    /\ UNCHANGED game

WinNext == TestWin

WinSpec == WinInit /\ [][WinNext]_vars


\* --------------------------------------------------- snake: src/snake/src/main.rs

\* enum Direction
Direction == {"Up", "Down", "Left", "Right"}

\* the direction an arrow key is refused in (handle_event's second tests)
Opposite(d) ==
    CASE d = "Up" -> "Down"
      [] d = "Down" -> "Up"
      [] d = "Left" -> "Right"
      [] d = "Right" -> "Left"

\* struct Position
Position(x, y) == [x |-> x, y |-> y]

\* the cells 1..=width x 1..=height that the random branch draws from
Field(width, height) == {Position(x, y) : x \in 1..width, y \in 1..height}

\* (1..=width).zip(1..=height): the pairs (i, i) up to the shorter range
Zipped(width, height) ==
    {Position(i, i) : i \in 1..(IF width < height THEN width ELSE height)}

\* HashMap::insert and HashMap::remove on the food map
FoodInsert(food, pos, food_score) ==
    [p \in DOMAIN food \cup {pos} |-> IF p = pos THEN food_score ELSE food[p]]
FoodRemove(food, pos) == [p \in DOMAIN food \ {pos} |-> food[p]]

\* the scores rng.gen_range(1..=FOOD_MAX_SCORE) is taken to give
FoodScores == {1, FOOD_MAX_SCORE}

\* the cells one iteration of generate_food may put food on: p < 0.7 draws
\* cells of the field until one holds neither snake nor food; otherwise a
\* cell of the zipped set that holds neither
food_cells_on_snake(food, body, width, height) ==
    IF 10 * (Cardinality(DOMAIN food) + Len(body)) < 7 * (width * height)
    THEN Field(width, height) \ DOMAIN food
    ELSE Zipped(width, height) \ DOMAIN food

food_cells(food, body, width, height) ==
    LET occupied == {body[k] : k \in 1..Len(body)} \cup DOMAIN food IN
    IF 10 * (Cardinality(DOMAIN food) + Len(body)) < 7 * (width * height)
    THEN Field(width, height) \ occupied
    ELSE Zipped(width, height) \ occupied

\* n iterations of the loop of generate_food: every food map it may end with
\* (the p >= 0.7 branch breaks when no cell is left; the p < 0.7 branch has
\* one, as fewer than 0.7 of the cells are taken)
RECURSIVE food_loop(_, _, _, _, _)
food_loop(food, body, width, height, n) ==
    IF n = 0 THEN {food}
    ELSE LET cells == food_cells(food, body, width, height) IN
         IF cells = {} THEN {food}
         ELSE UNION {food_loop(FoodInsert(food, pos, food_score), body, width, height, n - 1) :
                        pos \in cells, food_score \in FoodScores}

\* Game::generate_food: the food maps it may leave
generate_food(g) ==
    LET len == Len(g.snake.body)
        max == IF len > g.width * g.height THEN 0
               ELSE IF FOOD_NUM + len > g.width * g.height
                    THEN g.width * g.height - len
               ELSE FOOD_NUM
        have == Cardinality(DOMAIN g.food)
    IN food_loop(g.food, g.snake.body, g.width, g.height,
                 IF max > have THEN max - have ELSE 0)

\* Game::new (speed, clear and last_move, which only time and draw the game,
\* are left out): the games it may return
snake_new(width, height) ==
    LET g == [snake |-> [body |-> [k \in 1..INIT_LENGTH |->
                                     Position(INIT_LENGTH + 1 - k, height \div 2)],
                         direction |-> "Right"],
              food |-> <<>>, width |-> width, height |-> height, score |-> 0]
    IN {[g EXCEPT !.food = f] : f \in generate_food(g)}

\* check_hit_wall with the right edge leading to column 0
check_hit_wall_to_zero(g) ==
    LET head == g.snake.body[1] IN
    IF head.x = 0 THEN [g EXCEPT !.snake.body[1].x = g.width]
    ELSE IF head.x = g.width + 1 THEN [g EXCEPT !.snake.body[1].x = 0]
    ELSE IF head.y = 0 THEN [g EXCEPT !.snake.body[1].y = g.height]
    ELSE IF head.y = g.height + 1 THEN [g EXCEPT !.snake.body[1].y = 1]
    ELSE g

\* Game::check_hit_wall
check_hit_wall(g) ==
    LET head == g.snake.body[1] IN
    IF head.x = 0 THEN [g EXCEPT !.snake.body[1].x = g.width]
    ELSE IF head.x = g.width + 1 THEN [g EXCEPT !.snake.body[1].x = 1]
    ELSE IF head.y = 0 THEN [g EXCEPT !.snake.body[1].y = g.height]
    ELSE IF head.y = g.height + 1 THEN [g EXCEPT !.snake.body[1].y = 1]
    ELSE g

\* Game::check_eat_food: the games it may leave, and whether food was eaten
check_eat_food(g) ==
    LET head == g.snake.body[1] IN
    IF head \in DOMAIN g.food
    THEN LET food_score == g.food[head]
             eaten == [g EXCEPT !.food = FoodRemove(@, head), !.score = @ + food_score]
             tail == g.snake.body[Len(g.snake.body)]
         IN {[g |-> [eaten EXCEPT !.food = f,
                                  !.snake.body = @ \o [k \in 1..food_score |-> tail]],
              ate |-> TRUE] : f \in generate_food(eaten)}
    ELSE {[g |-> g, ate |-> FALSE]}

\* Game::check_hit_itself: game_over ends the process
check_hit_itself(g) ==
    IF \E k \in 2..Len(g.snake.body) : g.snake.body[k] = g.snake.body[1]
    THEN "GameOver" ELSE "Ok"

\* the `next` of move_forward_once, in u16: None where a build with overflow
\* checks panics
next_position(head, direction, oc) ==
    CASE direction = "Up" ->
            IF head.y = 0 THEN (IF oc THEN None ELSE Some(Position(head.x, U16_MAX)))
            ELSE Some(Position(head.x, head.y - 1))
      [] direction = "Down" ->
            IF head.y = U16_MAX THEN (IF oc THEN None ELSE Some(Position(head.x, 0)))
            ELSE Some(Position(head.x, head.y + 1))
      [] direction = "Left" ->
            IF head.x = 0 THEN (IF oc THEN None ELSE Some(Position(U16_MAX, head.y)))
            ELSE Some(Position(head.x - 1, head.y))
      [] direction = "Right" ->
            IF head.x = U16_MAX THEN (IF oc THEN None ELSE Some(Position(0, head.y)))
            ELSE Some(Position(head.x + 1, head.y))

\* Game::move_forward_once: the outcomes it may have
move_forward_once(g, oc) ==
    LET next == next_position(g.snake.body[1], g.snake.direction, oc) IN
    IF next = None THEN {[g |-> g, res |-> "Panic", ate |-> FALSE]}
    ELSE LET inserted == <<next[1]>> \o g.snake.body
             moved == [g EXCEPT !.snake.body = SubSeq(inserted, 1, Len(inserted) - 1)]
         IN {[g |-> e.g, res |-> check_hit_itself(e.g), ate |-> e.ate] :
                e \in check_eat_food(check_hit_wall(moved))}

\* one forward step after the outcome r of the update so far; dirs lists the
\* directions of the update's forward steps
forward(r, oc) ==
    IF r.res # "Ok" THEN {r}
    ELSE {[g |-> m.g, res |-> m.res, ate |-> m.ate,
           dirs |-> Append(r.dirs, r.g.snake.direction)] :
            m \in move_forward_once(r.g, oc)}

\* what handle_event may read: an arrow key, 'q' or Esc, or no key event or
\* another one ("None")
Keys == Direction \cup {"None", "q"}

\* the forward steps move_snake may find due in one update: none or one
\* (updates are UPDATES_INTERVAL = 20 ms apart, a step takes longer)
Jumps == {0, 1}

\* handle_event that turns the snake whatever its direction
handle_event_any_turn(r, key, oc) ==
    IF key = "None" THEN {r}
    ELSE IF key = "q" THEN {[r EXCEPT !.res = "Quit"]}
    ELSE IF r.g.snake.direction = key THEN forward(r, oc)
    ELSE {[r EXCEPT !.g.snake.direction = key]}

\* Game::handle_event
handle_event(r, key, oc) ==
    IF key = "None" THEN {r}
    ELSE IF key = "q" THEN {[r EXCEPT !.res = "Quit"]}
    ELSE IF r.g.snake.direction = key THEN forward(r, oc)
    ELSE IF r.g.snake.direction # Opposite(key)
        THEN {[r EXCEPT !.g.snake.direction = key]}
    ELSE {r}

\* Game::move_snake when `jump` steps are due
RECURSIVE move_snake(_, _, _)
move_snake(rs, jump, oc) ==
    IF jump = 0 THEN rs
    ELSE move_snake(UNION {forward(r, oc) : r \in rs}, jump - 1, oc)

\* Game::update: handle_event, then update_snake
update(g, key, jump, oc) ==
    move_snake(handle_event([g |-> g, res |-> "Ok", ate |-> FALSE, dirs |-> <<>>],
                            key, oc),
               jump, oc)

\* the terminal sizes the game is started in, as (width, height) of the field
Fields == {<<3, 2>>, <<4, 2>>, <<4, 1>>}

\* main: Game::new(width, height); the spider program's state is not there
SnakeInit ==
    /\ \E f \in Fields : game \in snake_new(f[1], f[2])
    /\ call = [op |-> "new", key |-> "None", jump |-> 0, before |-> "None",
               dirs |-> <<>>, ate |-> FALSE]
    /\ res = "Ok"
    /\ calls = 0
    /\ tableau = <<>>
    /\ stock = <<>>
    /\ current_stock_pos = 0
    /\ score = 0
    /\ game_suit = "One"
    /\ history_moves = <<>>
    /\ plan = <<>>

\* one turn of the loop of Game::run: update with the key event that is
\* waiting and the forward steps that are due, in either build; call.before
\* is the direction of the last forward step made before this update
Update ==
    /\ res = "Ok"
    /\ calls < MaxUpdates
    /\ \E key \in Keys, jump \in Jumps, oc \in BOOLEAN :
        \E r \in update(game, key, jump, oc) :
            /\ game' = r.g
            /\ res' = r.res
            /\ call' = [op |-> "update", key |-> key, jump |-> jump,
                        before |-> IF call.dirs # <<>> THEN call.dirs[Len(call.dirs)]
                                   ELSE call.before,
                        dirs |-> r.dirs, ate |-> r.ate]
    /\ calls' = calls + 1
    /\ UNCHANGED <<tableau, stock, current_stock_pos, score, game_suit,
                   history_moves, plan>>

SnakeNext == Update

SnakeSpec == SnakeInit /\ [][SnakeNext]_vars

\* ---------------------------------------------------------------- claims

\* the argument of the call that a step makes
IsDoMove(c) == c.op = "do_move"
IsMoveCard(c) == c.op = "do_move" /\ c.game_move.kind = "MoveCard"
Errors == {"DrawEmptyStock", "RecycleNoneEmptyStock", "MoveSrcNotExist",
           "MoveInvalidStockCard", "MoveDstNotValid"}

\* every card in play: the stock, then the piles in turn
RECURSIVE piles_from(_)
piles_from(p) == IF p > Len(tableau) THEN <<>> ELSE tableau[p] \o piles_from(p + 1)
InPlay == stock \o piles_from(1)

\* how many cards of v have the identity (suit, rank) of card c
Copies(v, c) == Cardinality({k \in 1..Len(v) : v[k].card = c})

\* C1: in every reachable state the tableau and the stock together hold
\* exactly 104 cards, and as many copies of every (suit, rank) as were dealt
C1_DeckConservation ==
    /\ Len(InPlay) = DECK
    /\ \A k \in 1..DECK : Copies(InPlay, all_cards[k].card) = Copies(all_cards, all_cards[k].card)

\* C2: a do_move call that returns an error leaves the tableau, the stock,
\* current_stock_pos, score and history_moves as they were
C2_Atomicity ==
    [][(IsDoMove(call') /\ res' \in Errors)
        => UNCHANGED <<tableau, stock, current_stock_pos, score, history_moves>>]_vars

\* C2's case: a MoveCard has been rejected in a game with moves on record
C2_Witness ==
    /\ IsMoveCard(call)
    /\ res = "MoveDstNotValid"
    /\ history_moves # <<>>

\* C3: once every accepted move has been undone (history_moves is as short
\* as at the deal), the tableau, the stock, current_stock_pos and score are
\* those of the deal
C3_UndoExactness ==
    history_moves = <<>> =>
        LET g == new(game_suit, Seed) IN
        /\ tableau = g.tableau
        /\ stock = g.stock
        /\ current_stock_pos = g.current_stock_pos
        /\ score = g.score

\* C4: do_move accepts a tableau-origin MoveCard onto the end of another,
\* non-empty pile only if the pile's top card takes the card at src under
\* verify_under (one rank higher; same colour in Two, same suit in Four)
C4_TableauPlacement ==
    [][(/\ IsMoveCard(call')
        /\ res' = "Ok"
        /\ call'.game_move.src.pile >= 1
        /\ call'.game_move.dst.pile # call'.game_move.src.pile
        /\ call'.game_move.dst.card = Len(tableau[call'.game_move.dst.pile])
        /\ tableau[call'.game_move.dst.pile] # <<>>)
        => verify_under(game_suit,
                        Last(tableau[call'.game_move.dst.pile]).card,
                        tableau[call'.game_move.src.pile][call'.game_move.src.card + 1].card)]_vars

\* the stock-origin MoveCard calls C5 is about: src is the shown stock card,
\* dst is the end of a non-empty pile
ShownOntoPile(c) ==
    /\ IsMoveCard(c)
    /\ c.game_move.src.pile = 0
    /\ current_stock_pos >= 1
    /\ c.game_move.src.card = current_stock_pos - 1
    /\ c.game_move.dst.pile \in 1..PILES
    /\ tableau[c.game_move.dst.pile] # <<>>
    /\ c.game_move.dst.card = Len(tableau[c.game_move.dst.pile])

\* C5: such a call is accepted if and only if the pile's top card takes the
\* stock card under verify_under, and is answered MoveDstNotValid otherwise
C5_StockPlacement ==
    [][ShownOntoPile(call') =>
         IF verify_under(game_suit, Last(tableau[call'.game_move.dst.pile]).card,
                         stock[call'.game_move.src.card + 1].card)
         THEN res' = "Ok"
         ELSE res' = "MoveDstNotValid"]_vars

\* the MoveCard calls C6 and C7 are about: src is a face-up tableau card or
\* the shown stock card, dst is an empty pile
OntoEmptyPile(c) ==
    /\ IsMoveCard(c)
    /\ \/ /\ c.game_move.src.pile \in 1..PILES
          /\ c.game_move.src.card < Len(tableau[c.game_move.src.pile])
          /\ tableau[c.game_move.src.pile][c.game_move.src.card + 1].is_up
       \/ /\ c.game_move.src.pile = 0
          /\ current_stock_pos >= 1
          /\ c.game_move.src.card = current_stock_pos - 1
    /\ c.game_move.dst.pile \in 1..PILES
    /\ tableau[c.game_move.dst.pile] = <<>>

\* the card a MoveCard call names as its source
SrcCard(c) ==
    IF c.game_move.src.pile = 0 THEN stock[c.game_move.src.card + 1]
    ELSE tableau[c.game_move.src.pile][c.game_move.src.card + 1]

\* C6: a King onto an empty pile at dst.card = 0 is accepted
C6_KingOnEmpty ==
    [][(/\ OntoEmptyPile(call')
        /\ call'.game_move.dst.card = 0
        /\ SrcCard(call').card.rank = KING)
        => res' = "Ok"]_vars

\* C7: a card that is no King onto an empty pile is answered MoveDstNotValid
C7_OnlyKingOnEmpty ==
    [][(OntoEmptyPile(call') /\ SrcCard(call').card.rank # KING)
        => res' = "MoveDstNotValid"]_vars

\* C8: after an accepted tableau-origin MoveCard with src.card > 0 the card
\* at index src.card - 1 of the source pile is face up, and the cards below
\* it are as before
C8_AutoReveal ==
    [][(/\ IsMoveCard(call')
        /\ res' = "Ok"
        /\ call'.game_move.src.pile >= 1
        /\ call'.game_move.src.card > 0)
        => LET sp == call'.game_move.src.pile
               sc == call'.game_move.src.card
           IN /\ Len(tableau'[sp]) >= sc
              /\ tableau'[sp][sc].is_up
              /\ \A k \in 1..(sc - 1) : tableau'[sp][k] = tableau[sp][k]]_vars

\* C9: do_move(DrawStock) returns DrawEmptyStock exactly when
\* current_stock_pos = stock.len(); otherwise it returns Ok, the cursor is
\* one higher and the tableau, the stock and the score are unchanged
C9_DrawStock ==
    [][(IsDoMove(call') /\ call'.game_move.kind = "DrawStock")
        => /\ (res' = "DrawEmptyStock") <=> (current_stock_pos = Len(stock))
           /\ res' # "DrawEmptyStock" =>
                /\ res' = "Ok"
                /\ current_stock_pos' = current_stock_pos + 1
                /\ UNCHANGED <<tableau, stock, score>>]_vars

\* C9's case: a draw has been refused at the end of a stock that holds cards
C9_Witness ==
    /\ IsDoMove(call)
    /\ call.game_move.kind = "DrawStock"
    /\ res = "DrawEmptyStock"
    /\ current_stock_pos = Len(stock)
    /\ stock # <<>>

\* C10: do_move(RecycleStock) returns RecycleNoneEmptyStock while
\* current_stock_pos < stock.len(); at current_stock_pos = stock.len() it
\* returns Ok, the cursor is 0 and the tableau, the stock and the score are
\* unchanged
C10_RecycleStock ==
    [][(IsDoMove(call') /\ call'.game_move.kind = "RecycleStock")
        => IF current_stock_pos < Len(stock)
           THEN res' = "RecycleNoneEmptyStock"
           ELSE /\ current_stock_pos = Len(stock)
                /\ res' = "Ok"
                /\ current_stock_pos' = 0
                /\ UNCHANGED <<tableau, stock, score>>]_vars

\* C10's case: a drawn-out stock that holds cards has been recycled
C10_Witness ==
    /\ IsDoMove(call)
    /\ call.game_move.kind = "RecycleStock"
    /\ res = "Ok"
    /\ current_stock_pos = 0
    /\ stock # <<>>
    /\ history_moves # <<>>

\* a pile that is RUN cards long with every card face up
FullFaceUp(pile) == Len(pile) = RUN /\ \A k \in 1..RUN : pile[k].is_up

\* C11: test_win returns true if and only if the stock is empty and each of
\* the ten piles is empty or holds exactly 13 cards, all face up, whatever
\* current_stock_pos is
C11_TestWin ==
    call.op = "test_win" =>
        (res = "true" <=>
            /\ stock = <<>>
            /\ \A p \in 1..PILES : tableau[p] = <<>> \/ FullFaceUp(tableau[p]))

\* C11's case: test_win has answered true for a tableau with a finished pile
\* and a cursor that is not 0
C11_Witness ==
    /\ call.op = "test_win"
    /\ res = "true"
    /\ current_stock_pos = 1
    /\ \E p \in 1..PILES : tableau[p] # <<>>

\* a pile that is one run: King at the bottom down to Ace at the top, each
\* card taking the next one under verify_under
CompleteRun(pile) ==
    /\ Len(pile) = RUN
    /\ \A k \in 1..RUN : pile[k].card.rank = KING + 1 - k
    /\ \A k \in 1..(RUN - 1) : verify_under(game_suit, pile[k].card, pile[k + 1].card)

\* C12: in every reachable state a pile that holds exactly 13 cards, all
\* face up, is a single complete run from King down to Ace that obeys the
\* variant's colour/suit rule
C12_WinProxy ==
    \A p \in 1..PILES : FullFaceUp(tableau[p]) => CompleteRun(tableau[p])

\* a sequence without its last element
Front(v) == SubSeq(v, 1, Len(v) - 1)

\* C13: an undo_once call made with a non-empty history_moves inverts the
\* last recorded move and removes exactly that entry
C13_UndoProgress ==
    [][(call'.op = "undo_once" /\ history_moves # <<>>)
        => /\ res' = "Ok"
           /\ history_moves' = Front(history_moves)]_vars

\* C14: an undo_once call that finds no history, or whose inverse fails,
\* leaves the tableau, the stock, current_stock_pos, score and history_moves
\* as they were
C14_UndoNoOp ==
    [][(call'.op = "undo_once" /\ res' \in Errors \cup {"NoHistory"})
        => UNCHANGED <<tableau, stock, current_stock_pos, score, history_moves>>]_vars

\* C15: a do_move call that returns Ok appends its move to history_moves
\* and keeps the earlier entries, one that returns an error leaves
\* history_moves alone, and a successful undo removes the last entry only
C15_HistoryBookkeeping ==
    [][/\ (IsDoMove(call') /\ res' = "Ok")
            => history_moves' = Append(history_moves, call'.game_move)
       /\ (IsDoMove(call') /\ res' \in Errors)
            => history_moves' = history_moves
       /\ (call'.op = "undo_once" /\ res' = "Ok")
            => /\ history_moves # <<>>
               /\ history_moves' = Front(history_moves)]_vars

\* C15's case: an undo has succeeded and left earlier entries on record
C15_Witness ==
    /\ call.op = "undo_once"
    /\ res = "Ok"
    /\ Len(history_moves) >= 2

\* C16: the before_visible recorded for an accepted tableau-origin MoveCard
\* is Some(true) exactly when, before the move, a card lay directly below
\* src.card and was face down
C16_BeforeVisibleCaptured ==
    [][(/\ IsMoveCard(call')
        /\ res' = "Ok"
        /\ call'.game_move.src.pile >= 1)
        => LET sp == call'.game_move.src.pile
               sc == call'.game_move.src.card
           IN (Last(history_moves').before_visible = Some(TRUE))
                <=> (sc > 0 /\ ~tableau[sp][sc].is_up)]_vars

\* the source of a MoveCard call is a card that may move: a face-up tableau
\* card, or the shown stock card
ValidSrc(c) ==
    \/ /\ c.game_move.src.pile \in 1..PILES
       /\ c.game_move.src.card < Len(tableau[c.game_move.src.pile])
       /\ tableau[c.game_move.src.pile][c.game_move.src.card + 1].is_up
    \/ /\ c.game_move.src.pile = 0
       /\ current_stock_pos >= 1
       /\ c.game_move.src.card = current_stock_pos - 1
       /\ stock[c.game_move.src.card + 1].is_up

\* the destination of a MoveCard call is the end of an existing pile
DstAtEnd(c) ==
    /\ c.game_move.dst.pile \in 1..PILES
    /\ c.game_move.dst.card = Len(tableau[c.game_move.dst.pile])

\* C17: do_move accepts a MoveCard only if dst is the end of an existing
\* pile; with a movable source and any other dst it returns MoveDstNotValid
\* and changes nothing
C17_DstValidity ==
    [][IsMoveCard(call') =>
        /\ res' = "Ok" => DstAtEnd(call')
        /\ (ValidSrc(call') /\ ~DstAtEnd(call'))
            => /\ res' = "MoveDstNotValid"
               /\ UNCHANGED <<tableau, stock, current_stock_pos, score, history_moves>>]_vars

\* C18: a stock-origin MoveCard whose src.card is not current_stock_pos - 1
\* returns MoveInvalidStockCard, and with current_stock_pos = 0 every
\* stock-origin MoveCard returns an error value
C18_StockCard ==
    [][(IsMoveCard(call') /\ call'.game_move.src.pile = 0)
        => /\ (current_stock_pos >= 1 /\ call'.game_move.src.card # current_stock_pos - 1)
                => res' = "MoveInvalidStockCard"
           /\ current_stock_pos = 0 => res' \in Errors]_vars

\* the tableau source of a MoveCard call names no card, or a face-down card
BadTableauSrc(c) ==
    /\ c.game_move.src.pile \in 1..PILES
    /\ \/ c.game_move.src.card >= Len(tableau[c.game_move.src.pile])
       \/ ~tableau[c.game_move.src.pile][c.game_move.src.card + 1].is_up

\* C19: a tableau-origin MoveCard whose src.card is no index of the source
\* pile, or whose card at src.card is face down, returns MoveSrcNotExist and
\* changes nothing, so an accepted move starts at a face-up card
C19_SrcValidity ==
    [][IsMoveCard(call') =>
        /\ BadTableauSrc(call')
            => /\ res' = "MoveSrcNotExist"
               /\ UNCHANGED <<tableau, stock, current_stock_pos, score, history_moves>>
        /\ (res' = "Ok" /\ call'.game_move.src.pile >= 1)
            => /\ call'.game_move.src.card < Len(tableau[call'.game_move.src.pile])
               /\ tableau[call'.game_move.src.pile][call'.game_move.src.card + 1].is_up]_vars

\* C19's case: a move of a face-down tableau card has been rejected
C19_Witness ==
    /\ IsMoveCard(call)
    /\ res = "MoveSrcNotExist"
    /\ call.game_move.src.pile \in 1..PILES
    /\ call.game_move.src.card < Len(tableau[call.game_move.src.pile])
    /\ ~tableau[call.game_move.src.pile][call.game_move.src.card + 1].is_up
    /\ history_moves = <<>>

\* a dealt pile: every card face down but the top one
DealtFaces(pile) ==
    /\ pile # <<>>
    /\ Last(pile).is_up
    /\ \A k \in 1..(Len(pile) - 1) : ~pile[k].is_up

\* C20: right after Game::new the tableau has 10 piles, four of 6 cards and
\* six of 5 cards, each face down but for its top card; the stock has 50
\* cards; current_stock_pos and score are 0 and history_moves is empty
C20_DealLayout ==
    call.op = "new" =>
        /\ Len(tableau) = 10
        /\ Cardinality({p \in 1..Len(tableau) :
                          Len(tableau[p]) = 6 /\ DealtFaces(tableau[p])}) = 4
        /\ Cardinality({p \in 1..Len(tableau) :
                          Len(tableau[p]) = 5 /\ DealtFaces(tableau[p])}) = 6
        /\ Len(stock) = 50
        /\ current_stock_pos = 0
        /\ score = 0
        /\ history_moves = <<>>

\* C20's case: the deal of variant Four
C20_Witness ==
    /\ call.op = "new"
    /\ game_suit = "Four"
    /\ Len(tableau[1]) = 6
    /\ Len(tableau[PILES]) = 5
    /\ Len(stock) = STOCK

\* C21: right after Game::new every stock card is face down
C21_StockFaceDown ==
    call.op = "new" => \A k \in 1..Len(stock) : ~stock[k].is_up

\* the suits of the cards in play
SuitsInPlay == {InPlay[k].card.suit : k \in 1..Len(InPlay)}

\* C22: the cards Game::new deals are of 1 suit in variant One (8 copies of
\* each rank), of 2 suits in variant Two (4 copies of each rank and suit) and
\* of 4 suits in variant Four (2 copies of each rank and suit)
C22_DeckComposition ==
    call.op = "new" =>
        LET n == CASE game_suit = "One" -> 1
                   [] game_suit = "Two" -> 2
                   [] game_suit = "Four" -> 4
        IN /\ Len(InPlay) = DECK
           /\ Cardinality(SuitsInPlay) = n
           /\ \A k \in 1..Len(InPlay) : Copies(InPlay, InPlay[k].card) * n = 8

\* the card a position names in the current state
CardAt(pos) ==
    IF pos.pile = 0 THEN stock[pos.card + 1] ELSE tableau[pos.pile][pos.card + 1]

\* a position names a card of the stock or of an existing pile
NamesCard(pos) ==
    \/ pos.pile = 0 /\ pos.card < Len(stock)
    \/ pos.pile \in 1..PILES /\ pos.card < Len(tableau[pos.pile])

\* the piles that take the card at src: other than src's own, and empty with
\* the card a King, or with a top card that takes it under verify_under
Takers(src) ==
    {p \in 1..PILES :
        /\ p # src.pile
        /\ IF tableau[p] = <<>> THEN CardAt(src).card.rank = KING
           ELSE verify_under(game_suit, Last(tableau[p]).card, CardAt(src).card)}

\* the least element of a non-empty set of numbers
Least(S) == CHOOSE x \in S : \A y \in S : x <= y

\* C23: for a src that names a card, find_possible_move returns the move to
\* the end of the lowest-numbered pile that takes the card, None exactly
\* when no pile takes it, and it changes nothing
C23_FirstMatch ==
    [][(call'.op = "find_possible_move" /\ NamesCard(call'.src))
        => /\ UNCHANGED <<tableau, stock, current_stock_pos, score, history_moves>>
           /\ IF Takers(call'.src) = {}
              THEN call'.game_move = None
              ELSE /\ call'.game_move # None
                   /\ call'.game_move[1].kind = "MoveCard"
                   /\ call'.game_move[1].src = call'.src
                   /\ call'.game_move[1].dst.pile = Least(Takers(call'.src))
                   /\ call'.game_move[1].dst.card
                        = Len(tableau[Least(Takers(call'.src))])]_vars

\* C23's case: a King of a later pile has been sent to an empty pile, the
\* first pile that takes it
C23_Witness ==
    /\ call.op = "find_possible_move"
    /\ call.game_move # None
    /\ call.src.pile > call.game_move[1].dst.pile
    /\ tableau[call.game_move[1].dst.pile] = <<>>

\* the cards of v with the last one turned up
TopUp(v) == IF v = <<>> THEN v ELSE [v EXCEPT ![Len(v)].is_up = TRUE]

\* C24: an accepted tableau-origin move between two piles appends the source
\* pile's cards from src.card to the top, in order and each with its face, to
\* the destination pile, leaves the source pile its cards below src.card with
\* at most the new top turned up, and leaves every other pile, the stock and
\* the cursor alone
C24_RunRelocation ==
    [][(IsMoveCard(call') /\ res' = "Ok" /\ call'.game_move.src.pile >= 1
        /\ call'.game_move.src.pile # call'.game_move.dst.pile)
        => LET src == call'.game_move.src
               dst == call'.game_move.dst
               kept == SubSeq(tableau[src.pile], 1, src.card)
           IN /\ tableau'[dst.pile]
                   = tableau[dst.pile]
                     \o SubSeq(tableau[src.pile], src.card + 1, Len(tableau[src.pile]))
              /\ tableau'[src.pile] \in {kept, TopUp(kept)}
              /\ \A p \in 1..PILES : p \notin {src.pile, dst.pile}
                                        => tableau'[p] = tableau[p]
              /\ stock' = stock
              /\ current_stock_pos' = current_stock_pos]_vars

\* C24's case: a run of two or more cards has been moved to another pile
C24_Witness ==
    /\ IsMoveCard(call) /\ res = "Ok"
    /\ call.game_move.src.pile >= 1
    /\ call.game_move.src.pile # call.game_move.dst.pile
    /\ Len(tableau[call.game_move.src.pile]) = call.game_move.src.card
    /\ Len(tableau[call.game_move.dst.pile]) >= call.game_move.dst.card + 2

\* C25: an accepted stock-origin move takes the card at current_stock_pos - 1
\* out of the stock, the other stock cards keeping their order, puts it on
\* top of the destination pile, lowers the cursor by one and changes no other
\* pile
C25_StockMoveEffects ==
    [][(IsMoveCard(call') /\ res' = "Ok" /\ call'.game_move.src.pile = 0)
        => LET dst == call'.game_move.dst
           IN /\ current_stock_pos >= 1
              /\ current_stock_pos <= Len(stock)
              /\ tableau'[dst.pile]
                   = Append(tableau[dst.pile], stock[current_stock_pos])
              /\ stock' = SubSeq(stock, 1, current_stock_pos - 1)
                          \o SubSeq(stock, current_stock_pos + 1, Len(stock))
              /\ current_stock_pos' = current_stock_pos - 1
              /\ \A p \in 1..PILES : p # dst.pile => tableau'[p] = tableau[p]]_vars

\* C25's case: a stock card has been moved and an earlier drawn card is the
\* shown one again
C25_Witness ==
    /\ IsMoveCard(call) /\ res = "Ok"
    /\ call.game_move.src.pile = 0
    /\ current_stock_pos >= 1
    /\ Len(stock) < STOCK

\* C26: the move find_possible_move returns for a stock card or for the
\* bottom card of a pile (src.card = 0) carries before_visible = None
C26_BeforeVisibleNone ==
    [][(/\ call'.op = "find_possible_move"
        /\ call'.game_move # None
        /\ (call'.src.pile = 0 \/ call'.src.card = 0))
        => call'.game_move[1].before_visible = None]_vars

\* C29: in every state reached from Game::new by do_move and undo_once
\* calls the cursor lies between 0 and the length of the stock
C29_CursorInRange == current_stock_pos \in 0..Len(stock)

\* C29's case: a draw has been accepted that put the cursor at the end of
\* the stock
C29_Witness ==
    /\ IsDoMove(call) /\ call.game_move.kind = "DrawStock" /\ res = "Ok"
    /\ stock # <<>>
    /\ current_stock_pos = Len(stock)

\* exactly one of do_move(DrawStock) and do_move(RecycleStock) is accepted
\* on game g: the draw below the end of the stock, the recycle otherwise
OneStockMove(g) ==
    \A oc \in BOOLEAN :
        /\ do_move(g, DrawStock, oc).res = "Ok"
             <=> g.current_stock_pos < Len(g.stock)
        /\ do_move(g, RecycleStock, oc).res = "Ok"
             <=> ~(g.current_stock_pos < Len(g.stock))

\* C30: in every state exactly one of do_move(DrawStock) and
\* do_move(RecycleStock) is accepted, the draw exactly below the end of the
\* stock; a click on the stock has sent that one and has not failed: the
\* move is recorded and the cursor is one on, or back at 0 after a recycle
C30_StockClick ==
    /\ OneStockMove(Self)
    /\ (call.op = "handle_click" /\ call.target.area = "stock")
        => /\ res = "Ok"
           /\ call.game_move \in {Some(DrawStock), Some(RecycleStock)}
           /\ history_moves # <<>>
           /\ Last(history_moves) = call.game_move[1]
           /\ IF call.game_move = Some(DrawStock)
              THEN current_stock_pos \in 1..Len(stock)
              ELSE current_stock_pos = 0

\* C30's case: after STOCK accepted draws and one that failed, the recycle
\* has been accepted and the cursor is back at 0
C30_Witness ==
    /\ IsDoMove(call) /\ call.game_move.kind = "RecycleStock" /\ res = "Ok"
    /\ Len(stock) = STOCK
    /\ current_stock_pos = 0
    /\ history_moves = [k \in 1..STOCK |-> DrawStock] \o <<RecycleStock>>

\* C28: the move find_possible_move suggests for a face-up tableau card or
\* for the shown stock card is accepted by do_move in the same state: a
\* click that sends such a move gets Ok
C28_SuggestedAccepted ==
    [][(/\ call'.op = "handle_click"
        /\ call'.target.area \in {"shown", "card"}
        /\ call'.game_move # None)
        => res' = "Ok"]_vars

\* C27: in play by clicks and keys, undo_once after an accepted move gives
\* back the game as it was before the move (tableau with faces, stock,
\* cursor, history), and an undo_once that removed a move left the game
\* from which that move leads to the game before the undo
C27_ClickUndoExact ==
    [][/\ (call'.op \in {"handle_click", "do_move"} /\ res' = "Ok")
            => \A oc \in BOOLEAN : undo_once(Self', oc) = Ok(Self)
       /\ (call'.op = "undo_once" /\ history_moves # <<>>)
            => /\ res' = "Ok"
               /\ history_moves' = Front(history_moves)
               /\ \A oc \in BOOLEAN :
                    do_move(Self', Last(history_moves), oc) = Ok(Self)]_vars

\* C27's case: after four events or more, the last an undo_once that removed
\* a move, every move made has been undone and the game is the deal again
C27_Witness ==
    /\ call.op = "undo_once" /\ res = "Ok"
    /\ calls >= 4
    /\ history_moves = <<>>
    /\ Self = new(game_suit, Seed)

\* C33: every move do_move accepts changes the tableau, the stock or the
\* cursor
C33_NoNoOp ==
    [][(IsDoMove(call') /\ res' = "Ok")
        => <<tableau', stock', current_stock_pos'>>
             # <<tableau, stock, current_stock_pos>>]_vars

\* C31: in play by clicks and keys every non-empty pile has its top card
\* face up and no face-down card above a face-up card
C31_FaceUpOnTop ==
    \A p \in 1..PILES :
        /\ tableau[p] # <<>> => Last(tableau[p]).is_up
        /\ \A k \in 1..(Len(tableau[p]) - 1) :
              tableau[p][k].is_up => tableau[p][k + 1].is_up

\* C31's case: a click has moved a run away and the card that was below it,
\* face down until then, is the pile's face-up top card; another pile holds
\* face-down cards below two or more face-up ones
C31_Witness ==
    /\ call.op = "handle_click" /\ res = "Ok"
    /\ call.game_move[1].kind = "MoveCard"
    /\ call.game_move[1].before_visible = Some(TRUE)
    /\ Len(tableau[call.game_move[1].src.pile]) = call.game_move[1].src.card
    /\ Last(tableau[call.game_move[1].src.pile]).is_up
    /\ \E p \in 1..PILES :
          /\ Len(tableau[p]) >= 3
          /\ ~tableau[p][1].is_up
          /\ tableau[p][Len(tableau[p]) - 1].is_up

\* card `over` is one rank below card `under` and of a suit the variant
\* lets lie on it: any in One, of the same colour in Two, the same in Four
Follows(gs, under, over) ==
    /\ under.rank = over.rank + 1
    /\ gs = "Two" => (under.suit \in {"Clubs", "Spades"}) = (over.suit \in {"Clubs", "Spades"})
    /\ gs = "Four" => under.suit = over.suit

\* C32: in play by clicks and keys the face-up cards of every pile form a
\* chain: each face-up card lying on a face-up card is one rank below it
\* and meets the variant's colour or suit rule
C32_FaceUpChain ==
    \A p \in 1..PILES :
        \A k \in 1..(Len(tableau[p]) - 1) :
            (tableau[p][k].is_up /\ tableau[p][k + 1].is_up)
                => Follows(game_suit, tableau[p][k].card, tableau[p][k + 1].card)

\* C32's case: a click has moved a run of two or more cards to another pile
C32_Witness ==
    /\ call.op = "handle_click" /\ res = "Ok"
    /\ call.game_move[1].kind = "MoveCard"
    /\ call.game_move[1].src.pile >= 1
    /\ Len(tableau[call.game_move[1].dst.pile]) >= call.game_move[1].dst.card + 2

\* snake: the cells the snake of game g lies on
BodyCells(g) == {g.snake.body[k] : k \in 1..Len(g.snake.body)}

\* snake: every segment of the snake of game g lies inside the field
AllInside(g) ==
    \A k \in 1..Len(g.snake.body) :
        /\ g.snake.body[k].x \in 1..g.width
        /\ g.snake.body[k].y \in 1..g.height

\* snake: the cell one step from pos in direction d, leaving the field by an
\* edge and entering it again at the opposite edge
Wrapped(pos, d, width, height) ==
    CASE d = "Up" -> Position(pos.x, IF pos.y = 1 THEN height ELSE pos.y - 1)
      [] d = "Down" -> Position(pos.x, IF pos.y = height THEN 1 ELSE pos.y + 1)
      [] d = "Left" -> Position(IF pos.x = 1 THEN width ELSE pos.x - 1, pos.y)
      [] d = "Right" -> Position(IF pos.x = width THEN 1 ELSE pos.x + 1, pos.y)

\* C34: when the whole snake lies inside the field, it does so again after
\* the forward steps of an update, and one forward step takes the head to
\* the next cell in its direction, from an edge to the opposite edge of the
\* same row or column
C34_WallWrap ==
    [][(call'.op = "update" /\ res' = "Ok" /\ AllInside(game))
        => /\ AllInside(game')
           /\ Len(call'.dirs) = 1
                => game'.snake.body[1]
                     = Wrapped(game.snake.body[1], call'.dirs[1],
                               game.width, game.height)]_vars

\* C34's case: a step to the right has taken the head from the right edge
\* to column 1 of the same row
C34_Witness ==
    /\ call.op = "update" /\ res = "Ok"
    /\ call.dirs = <<"Right">>
    /\ AllInside(game)
    /\ game.snake.body[1].x = 1
    /\ game.snake.body[2].x = game.width
    /\ game.snake.body[2].y = game.snake.body[1].y

\* snake: every food item of game g lies inside the field and on no cell of
\* the snake, and so does every cell generate_food would next put food on,
\* which holds no food either
FoodApart(g) ==
    /\ DOMAIN g.food \subseteq Field(g.width, g.height)
    /\ DOMAIN g.food \cap BodyCells(g) = {}
    /\ LET cells == food_cells(g.food, g.snake.body, g.width, g.height)
       IN /\ cells \subseteq Field(g.width, g.height)
          /\ cells \cap (BodyCells(g) \cup DOMAIN g.food) = {}

\* C35: after Game::new and after every update whose forward steps were
\* completed no food lies on the snake or outside the field, and the food
\* that was not eaten in a forward step is where it was, with its score
C35_FoodOffSnake ==
    [][/\ call.op = "new" => FoodApart(game)
       /\ (call'.op = "update" /\ res' = "Ok")
            => /\ FoodApart(game')
               /\ Len(call'.dirs) = 1
                    => \A p \in DOMAIN game.food \ {game'.snake.body[1]} :
                          p \in DOMAIN game'.food /\ game'.food[p] = game.food[p]]_vars

\* C35's case: the snake has eaten, new food has been generated and the
\* snake has grown by more than one segment
C35_Witness ==
    /\ call.op = "update" /\ res = "Ok" /\ call.ate
    /\ game.food # <<>>
    /\ Len(game.snake.body) > INIT_LENGTH + 1

\* C36: the direction of a forward step is never the opposite of the
\* direction of the forward step before it, whatever keys came in between
C36_NoTurnBack ==
    call.op = "update"
        => LET steps == (IF call.before = "None" THEN <<>> ELSE <<call.before>>)
                        \o call.dirs
           IN \A k \in 1..(Len(steps) - 1) : steps[k + 1] # Opposite(steps[k])

\* C37: after generate_food, in Game::new and after food is eaten, the field
\* holds FOOD_NUM food items when FOOD_NUM cells or more are free of the
\* snake
C37_FoodSupply ==
    (res = "Ok" /\ (call.op = "new" \/ call.ate))
        => (Cardinality(Field(game.width, game.height) \ BodyCells(game)) >= FOOD_NUM
               => Cardinality(DOMAIN game.food) = FOOD_NUM)

====
